---- MODULE Spec2Model ----
(***************************************************************************)
(* Behavioural model of the Kratos orchestration scripts:                  *)
(*   - CoSimulationApplication/python_scripts/coupling_interface_data.py   *)
(*   - MappingApplication/tests/SmallTestsMPI.py                           *)
(*   - StructuralMechanicsApplication/python_scripts/                      *)
(*       adaptative_remeshing_structural_mechanics_implicit_dynamic_solver *)
(*   - SwimmingDEMApplication/python_scripts/fluid_fraction_test_analysis  *)
(* Each script is a separate Python program; Init chooses which one runs.  *)
(* Calls into the native engine are points where the engine may raise; the *)
(* failure input of an action selects the engine call that raises.         *)
(***************************************************************************)
EXTENDS Integers, Sequences, FiniteSets, TLC

\* ------------------------------------------------------------------ bounds
MaxVal == 1          \* nodal values and update entries range over 0..MaxVal
NumNodes == 3        \* nodes of the model, numbered 1..NumNodes
MaxProcs == 10       \* largest mpi.size considered
MaxCalls == 3        \* getter calls per solver considered
MaxIteration == 2    \* largest iteration number handed to the analysis

\* ------------------------------------------------------- program constants
VecSize == 3         \* updated_value = [0]*3

Scripts == {"coupling", "mapper", "solver", "analysis"}

VARIABLES
  script,            \* the program that is running
  lastOp,            \* the operation that ran last ("none" initially)
  outcome,           \* "none" | "returned" | "raised": how lastOp ended
  raisedAt,          \* engine calls that raised inside lastOp
  \* --- CouplingInterfaceData and the model it reads and writes
  name, dimension, geometry_name,
  values,            \* values[var][node][step]: the 3 components stored by the engine
  update,            \* the list passed to the last ApplyUpdateToData that returned, after the call
  passed,            \* the same list as it was when passed
  reads,             \* number of entries of update that call read
  data,              \* the list returned by the last GetPythonList
  stepArg,           \* solution_step_index of the last GetPythonList
  \* --- SmallTestsMPI
  mpiSize,           \* environment: number of processors of the run
  mpiDefined,        \* module namespace holds `mpi`
  pc,                \* position of the test case
  num_processors, test, cwd, startCwd, currentPath, log,
  \* --- adaptative remeshing solver
  meshingAvailable,  \* environment: MeshingApplication is compiled
  missing_meshing_dependencies,
  nodalVariables,    \* solution step variables of main_model_part
  remeshing_process, metric_process,   \* 0: attribute absent, else object identity
  nextObject,        \* identity of the next object the engine creates
  remeshCreates, metricCreates,        \* invocations of _create_*_process
  firstRemesh, firstMetric,            \* object returned by the first returning call (0: none yet)
  returned,          \* object returned by the last getter call (0: none)
  calls,
  \* --- fluid fraction test analysis
  fileParameters,    \* content of ProjectParameters.json
  project_parameters, baseParameters, toolArgument, constructedBy, lookup

commonVars == <<script, lastOp, outcome, raisedAt>>
couplingVars == <<name, dimension, geometry_name, values, update, passed, reads, data, stepArg>>
mapperVars == <<mpiSize, mpiDefined, pc, num_processors, test, cwd, startCwd, currentPath, log>>
solverVars == <<meshingAvailable, missing_meshing_dependencies, nodalVariables,
                remeshing_process, metric_process, nextObject, remeshCreates,
                metricCreates, firstRemesh, firstMetric, returned, calls>>
analysisVars == <<fileParameters, project_parameters, baseParameters, toolArgument, constructedBy, lookup>>
vars == <<commonVars, couplingVars, mapperVars, solverVars, analysisVars>>

\* ===================================================== coupling_interface_data
Vals == 0..MaxVal
Steps == 0..1
Nodes == 1..NumNodes
VariableNames == {"DISPLACEMENT", "FORCE"}
Dimensions == -1..VecSize
Interface == [n \in 1..(NumNodes - 1) |-> n]
Tip == <<NumNodes>>
GeometryNames == {"interface", "tip"}

\* self.solver.model[geometry_name].Nodes, in iteration order
MeshNodes(g) == IF g = "interface" THEN Interface ELSE Tip

VarOffset(v) == IF v = "DISPLACEMENT" THEN 0 ELSE 1

\* the nodal data the engine holds before the script touches it
InitialField ==
  [v \in VariableNames |-> [n \in Nodes |-> [s \in Steps |->
     [c \in 1..VecSize |-> (n + s + c + VarOffset(v)) % (MaxVal + 1)]]]]

\* [0]*n of Python: the empty list for n <= 0
PyZeros(n) == [j \in 1..(IF n > 0 THEN n ELSE 0) |-> 0]

\* node.GetSolutionStepValue(data_variable, solution_step_index)
GetSolutionStepValue(vals, v, node, k) == vals[v][node][k]

\* variant: the value is written at every solution step index
SetSolutionStepValueAllSteps(vals, v, node, k, value) ==
  [vals EXCEPT ![v][node] = [s \in Steps |-> [c \in 1..VecSize |-> value[c]]]]

\* node.SetSolutionStepValue(data_variable, 0, updated_value): the engine stores a copy
SetSolutionStepValue(vals, v, node, k, value) ==
  [vals EXCEPT ![v][node][k] = [c \in 1..VecSize |-> value[c]]]

\* variant: data[node_index + i] = data_value[i]
RECURSIVE GetInnerUnstrided(_, _, _, _, _)
GetInnerUnstrided(d, lst, data_value, node_index, i) ==
  IF i >= d THEN lst
  ELSE GetInnerUnstrided(d, [lst EXCEPT ![node_index + i + 1] = data_value[i + 1]],
                         data_value, node_index, i + 1)

\* for i in range(self.dimension): data[node_index*self.dimension + i] = data_value[i]
RECURSIVE GetInner(_, _, _, _, _)
GetInner(d, lst, data_value, node_index, i) ==
  IF i >= d THEN lst
  ELSE GetInner(d, [lst EXCEPT ![node_index * d + i + 1] = data_value[i + 1]],
                data_value, node_index, i + 1)

\* for node in data_mesh.Nodes: ...; node_index += 1
\* failNode: position (from 1) of the node whose GetSolutionStepValue raises, 0 for none
RECURSIVE GetOuter(_, _, _, _, _, _, _, _)
GetOuter(vals, v, d, mesh, k, lst, node_index, failNode) ==
  IF node_index >= Len(mesh) THEN [data |-> lst, raised |-> "none"]
  ELSE IF failNode = node_index + 1 THEN [data |-> lst, raised |-> "GetSolutionStepValue"]
  ELSE GetOuter(vals, v, d, mesh, k,
                GetInner(d, lst, GetSolutionStepValue(vals, v, mesh[node_index + 1], k),
                         node_index, 0),
                node_index + 1, failNode)

\* the engine call that raises inside an operation: none, the lookup of the mesh,
\* the lookup of the variable, or the access to the node at a position of the mesh
EngineFailures(g) ==
  {<<"none", 0>>, <<"model", 0>>, <<"GetVariable", 0>>}
    \cup {<<"node", n>> : n \in 1..Len(MeshNodes(g))}

\* CouplingInterfaceData.GetPythonList(solution_step_index)
GetPythonList(vals, v, d, g, k, fail) ==
  IF fail[1] = "model" THEN [data |-> <<>>, raised |-> "model"]
  ELSE IF fail[1] = "GetVariable" THEN [data |-> <<>>, raised |-> "GetVariable"]
  ELSE GetOuter(vals, v, d, MeshNodes(g), k, PyZeros(Len(MeshNodes(g)) * d), 0, fail[2])

\* variant: updated_value[i] = update[i]
RECURSIVE ApplyInnerFirstSlice(_, _, _, _, _, _)
ApplyInnerFirstSlice(d, updated_value, upd, node_index, i, nread) ==
  IF i >= d THEN [updated_value |-> updated_value, raised |-> "none", reads |-> nread]
  ELSE IF node_index * d + i >= Len(upd)
       THEN [updated_value |-> updated_value, raised |-> "IndexError", reads |-> nread]
  ELSE ApplyInnerFirstSlice(d, [updated_value EXCEPT ![i + 1] = upd[i + 1]],
                            upd, node_index, i + 1, nread + 1)

\* for i in range(self.dimension): updated_value[i] = update[node_index*self.dimension + i]
\* an index past the end of update is Python's IndexError
RECURSIVE ApplyInner(_, _, _, _, _, _)
ApplyInner(d, updated_value, upd, node_index, i, nread) ==
  IF i >= d THEN [updated_value |-> updated_value, raised |-> "none", reads |-> nread]
  ELSE IF node_index * d + i >= Len(upd)
       THEN [updated_value |-> updated_value, raised |-> "IndexError", reads |-> nread]
  ELSE ApplyInner(d, [updated_value EXCEPT ![i + 1] = upd[node_index * d + i + 1]],
                  upd, node_index, i + 1, nread + 1)

\* for node in data_mesh.Nodes: ...; node.SetSolutionStepValue(data_variable, 0, updated_value)
RECURSIVE ApplyOuter(_, _, _, _, _, _, _, _, _)
ApplyOuter(vals, v, d, mesh, upd, updated_value, node_index, failNode, nread) ==
  IF node_index >= Len(mesh)
  THEN [values |-> vals, update |-> upd, raised |-> "none", reads |-> nread]
  ELSE LET inner == ApplyInner(d, updated_value, upd, node_index, 0, nread) IN
       IF inner.raised # "none"
       THEN [values |-> vals, update |-> upd, raised |-> inner.raised, reads |-> inner.reads]
       ELSE IF failNode = node_index + 1
       THEN [values |-> vals, update |-> upd, raised |-> "SetSolutionStepValue",
             reads |-> inner.reads]
       ELSE ApplyOuter(SetSolutionStepValue(vals, v, mesh[node_index + 1], 0,
                                            inner.updated_value),
                       v, d, mesh, upd, inner.updated_value, node_index + 1, failNode,
                       inner.reads)

\* variant: updated_value starts as the value the first node holds
ApplyUpdateToDataKeepsComponents(vals, v, d, g, upd, fail) ==
  IF fail[1] = "model"
  THEN [values |-> vals, update |-> upd, raised |-> "model", reads |-> 0]
  ELSE IF fail[1] = "GetVariable"
  THEN [values |-> vals, update |-> upd, raised |-> "GetVariable", reads |-> 0]
  ELSE ApplyOuter(vals, v, d, MeshNodes(g), upd, vals[v][MeshNodes(g)[1]][0], 0, fail[2], 0)

\* CouplingInterfaceData.ApplyUpdateToData(update)
ApplyUpdateToData(vals, v, d, g, upd, fail) ==
  IF fail[1] = "model"
  THEN [values |-> vals, update |-> upd, raised |-> "model", reads |-> 0]
  ELSE IF fail[1] = "GetVariable"
  THEN [values |-> vals, update |-> upd, raised |-> "GetVariable", reads |-> 0]
  ELSE ApplyOuter(vals, v, d, MeshNodes(g), upd, PyZeros(VecSize), 0, fail[2], 0)

\* the engine calls of an operation that raised
EngineRaised(raised) ==
  IF raised \in {"none", "IndexError"} THEN {} ELSE {raised}

\* variant: the operation swallows what was raised inside it
CompletionSwallowed(raised) == "returned"

\* no handler in the operation: it returns only if nothing was raised inside it
Completion(raised) == IF raised = "none" THEN "returned" ELSE "raised"

\* update lists the callers pass for a mesh: k entries per node, k in 0..VecSize;
\* constant lists and lists with a single non-zero entry
UnitList(n, p, x) == [j \in 1..n |-> IF j = p THEN x ELSE 0]
ListsOfLen(n) ==
  {[j \in 1..n |-> x] : x \in Vals} \cup {UnitList(n, p, MaxVal) : p \in 1..n}
UpdateLists(g) == UNION {ListsOfLen(Len(MeshNodes(g)) * k) : k \in 0..VecSize}

NoList == <<-1>>

InitCoupling ==
  /\ name \in VariableNames
  /\ dimension \in Dimensions
  /\ geometry_name \in GeometryNames
  /\ values = InitialField
  /\ update = NoList /\ passed = NoList /\ reads = 0 /\ data = NoList /\ stepArg = 0

IdleCoupling ==
  /\ name = "DISPLACEMENT" /\ dimension = -1 /\ geometry_name = "interface"
  /\ values = InitialField
  /\ update = NoList /\ passed = NoList /\ reads = 0 /\ data = NoList /\ stepArg = 0

CallGetPythonList ==
  /\ script = "coupling"
  /\ \E k \in Steps, fail \in EngineFailures(geometry_name) :
       \E r \in {GetPythonList(values, name, dimension, geometry_name, k, fail)} :
         /\ lastOp' = "GetPythonList"
         /\ outcome' = Completion(r.raised)
         /\ raisedAt' = EngineRaised(r.raised)
         /\ data' = IF r.raised = "none" THEN r.data ELSE NoList
         /\ stepArg' = k
  /\ UNCHANGED <<script, name, dimension, geometry_name, values, update, passed, reads>>
  /\ UNCHANGED <<mapperVars, solverVars, analysisVars>>

CallApplyUpdateToData ==
  /\ script = "coupling"
  /\ \E upd \in UpdateLists(geometry_name), fail \in EngineFailures(geometry_name) :
       \E r \in {ApplyUpdateToData(values, name, dimension, geometry_name, upd, fail)} :
         /\ lastOp' = "ApplyUpdateToData"
         /\ outcome' = Completion(r.raised)
         /\ raisedAt' = EngineRaised(r.raised)
         /\ values' = r.values
         /\ update' = IF r.raised = "none" THEN r.update ELSE NoList
         /\ passed' = IF r.raised = "none" THEN upd ELSE NoList
         /\ reads' = IF r.raised = "none" THEN r.reads ELSE 0
         /\ data' = NoList
  /\ UNCHANGED <<script, name, dimension, geometry_name, stepArg>>
  /\ UNCHANGED <<mapperVars, solverVars, analysisVars>>

\* ============================================================== SmallTestsMPI
Dirs == {"tests", "build", "home"}

\* os.path.dirname(os.path.realpath(__file__))
ScopeDir == "tests"

ImportPoints == {"KratosMultiphysics", "KratosMultiphysics.mpi", "KratosUnittest"}

\* module level, lines 4-13: the failing imports that the module does not handle
\* (try: from KratosMultiphysics.mpi import * / except: pass)
UnhandledImports(failing) ==
  IF "KratosMultiphysics" \in failing THEN {"KratosMultiphysics"}
  ELSE IF "KratosUnittest" \in failing THEN {"KratosUnittest"}
  ELSE {}

\* the imports that raised before the module stopped or finished loading
RaisedImports(failing) ==
  IF "KratosMultiphysics" \in failing THEN {"KratosMultiphysics"}
  ELSE failing

\* lines 6-9: `mpi` is bound only if the import in the try block went through
MpiDefined(failing) ==
  "KratosMultiphysics" \notin failing /\ "KratosMultiphysics.mpi" \notin failing

\* controlledExecutionScope.__init__
ScopeInit(dir) == dir            \* self.currentPath = os.getcwd()
\* controlledExecutionScope.__enter__
ScopeEnter(dir, scope) == scope  \* os.chdir(self.scope)
\* variant: __exit__ leaves the working directory where it is
ScopeExitStays(dir, saved) == dir

\* controlledExecutionScope.__exit__
ScopeExit(dir, saved) == saved   \* os.chdir(self.currentPath)

\* setUp, lines 34-37: try: self.num_processors = mpi.size / except: self.num_processors = 1
NumProcessors(defined, size, sizeRaises) ==
  IF defined /\ ~sizeRaises THEN size ELSE 1

\* setUp, lines 42-46
TestKind(p) == IF p = 1 THEN "serial" ELSE "mpi"

Call(test_name, value) == <<test_name, value>>

serialTests ==
  << Call("TestMapConstantScalarValues", 1),
     Call("TestInverseMapConstantScalarValues", 2),
     Call("TestMapConstantVectorValues", 3),
     Call("TestInverseMapConstantVectorValues", 4),
     Call("TestMapNonConstantScalarValues", 5),
     Call("TestInverseMapNonConstantScalarValues", 6) >>

parallelTests ==
  << Call("TestMapConstantScalarValues", 1),
     Call("TestInverseMapConstantScalarValues", 2),
     Call("TestMapConstantVectorValues", 3),
     Call("TestInverseMapConstantVectorValues", 4) >>

list_processors_TestMapNonConstantScalarValues == {2, 4, 8}
list_processors_TestInverseMapNonConstantScalarValues == {3, 5, 9}

\* variant: the serial tests whatever the processor count
test_executionSerialOnly(p) == serialTests

\* the calls the body of test_execution makes, in order, when none of them raises
test_execution(p) ==
  IF p = 1 THEN serialTests
  ELSE parallelTests
       \o (IF p \in list_processors_TestMapNonConstantScalarValues
           THEN << Call("TestMapNonConstantScalarValues", 5) >> ELSE << >>)
       \o (IF p \in list_processors_TestInverseMapNonConstantScalarValues
           THEN << Call("TestInverseMapNonConstantScalarValues", 6) >> ELSE << >>)

InitMapper ==
  /\ mpiSize \in 1..MaxProcs
  /\ cwd \in Dirs
  /\ mpiDefined = FALSE /\ pc = "unloaded" /\ num_processors = 0 /\ test = "none"
  /\ startCwd = cwd /\ currentPath = "" /\ log = << >>

IdleMapper ==
  /\ mpiSize = 1 /\ cwd = "home"
  /\ mpiDefined = FALSE /\ pc = "unloaded" /\ num_processors = 0 /\ test = "none"
  /\ startCwd = cwd /\ currentPath = "" /\ log = << >>

\* importing the module, lines 1-13
ImportModule ==
  /\ script = "mapper" /\ pc = "unloaded"
  /\ \E failing \in SUBSET ImportPoints :
       /\ lastOp' = "import"
       /\ raisedAt' = RaisedImports(failing)
       /\ outcome' = IF UnhandledImports(failing) = {} THEN "returned" ELSE "raised"
       /\ mpiDefined' = MpiDefined(failing)
       /\ pc' = IF UnhandledImports(failing) = {} THEN "loaded" ELSE "unloaded"
  /\ UNCHANGED <<script, mpiSize, num_processors, test, cwd, startCwd, currentPath, log>>
  /\ UNCHANGED <<couplingVars, solverVars, analysisVars>>

\* setUp up to the entry of the with block, lines 33-40
SetUpEnter ==
  /\ script = "mapper" /\ pc = "loaded"
  /\ \E sizeRaises \in BOOLEAN :
       /\ num_processors' = NumProcessors(mpiDefined, mpiSize, sizeRaises)
       /\ raisedAt' = IF mpiDefined /\ sizeRaises THEN {"mpi.size"} ELSE {}
  /\ lastOp' = "setUp" /\ outcome' = "none"
  /\ startCwd' = cwd
  /\ currentPath' = ScopeInit(cwd)
  /\ cwd' = ScopeEnter(cwd, ScopeDir)
  /\ pc' = "setUp_body"
  /\ UNCHANGED <<script, mpiSize, mpiDefined, test, log>>
  /\ UNCHANGED <<couplingVars, solverVars, analysisVars>>

\* the body of the with block of setUp and the exit of the block, lines 41-46
SetUpBody ==
  /\ script = "mapper" /\ pc = "setUp_body"
  /\ \E constructRaises \in BOOLEAN :
       /\ test' = IF constructRaises THEN test ELSE TestKind(num_processors)
       /\ raisedAt' = IF constructRaises THEN raisedAt \cup {"construct"} ELSE raisedAt
       /\ outcome' = IF constructRaises THEN "raised" ELSE "returned"
       /\ pc' = IF constructRaises THEN "setUp_failed" ELSE "ready"
  /\ cwd' = ScopeExit(cwd, currentPath)
  /\ UNCHANGED <<script, lastOp, mpiSize, mpiDefined, num_processors, startCwd, currentPath, log>>
  /\ UNCHANGED <<couplingVars, solverVars, analysisVars>>

\* test_execution up to the entry of the with block, lines 48-50
TestExecutionEnter ==
  /\ script = "mapper" /\ pc = "ready"
  /\ lastOp' = "test_execution" /\ outcome' = "none" /\ raisedAt' = {}
  /\ startCwd' = cwd
  /\ currentPath' = ScopeInit(cwd)
  /\ cwd' = ScopeEnter(cwd, ScopeDir)
  /\ log' = << >>
  /\ pc' = "test_body"
  /\ UNCHANGED <<script, mpiSize, mpiDefined, num_processors, test>>
  /\ UNCHANGED <<couplingVars, solverVars, analysisVars>>

\* the next call of the body, lines 51-64; a call that raises leaves the block
TestCall ==
  /\ script = "mapper" /\ pc = "test_body"
  /\ Len(log) < Len(test_execution(num_processors))
  /\ log' = Append(log, test_execution(num_processors)[Len(log) + 1])
  /\ \E testRaises \in BOOLEAN :
       IF testRaises
       THEN /\ raisedAt' = {"test"} /\ outcome' = "raised" /\ pc' = "finished"
            /\ cwd' = ScopeExit(cwd, currentPath)
       ELSE UNCHANGED <<raisedAt, outcome, pc, cwd>>
  /\ UNCHANGED <<script, lastOp, mpiSize, mpiDefined, num_processors, test, startCwd, currentPath>>
  /\ UNCHANGED <<couplingVars, solverVars, analysisVars>>

\* the body made its last call: the block is left and test_execution returns
TestExecutionExit ==
  /\ script = "mapper" /\ pc = "test_body"
  /\ Len(log) = Len(test_execution(num_processors))
  /\ cwd' = ScopeExit(cwd, currentPath)
  /\ outcome' = "returned"
  /\ pc' = "finished"
  /\ UNCHANGED <<script, lastOp, raisedAt, mpiSize, mpiDefined, num_processors, test,
                 startCwd, currentPath, log>>
  /\ UNCHANGED <<couplingVars, solverVars, analysisVars>>

\* ===== adaptative_remeshing_structural_mechanics_implicit_dynamic_solver
\* module level, lines 9-14
MissingMeshingDependencies(available) ==
  IF available THEN TRUE ELSE FALSE

\* what ImplicitMechanicalSolver.AddVariables adds
BaseVariables == {"DISPLACEMENT", "VELOCITY", "ACCELERATION"}

\* AddVariables, lines 46-50: the variables of main_model_part afterwards
AddVariables(present, missing) ==
  IF ~missing THEN present \cup BaseVariables \cup {"NODAL_H"}
  ELSE present \cup BaseVariables

\* variant: the process is created on every call
MustCreateAlways(attribute) == TRUE

\* get_remeshing_process / get_metric_process, lines 52-55 and 60-63:
\* the attribute is absent (0) -> the process is created
MustCreate(attribute) == attribute = 0

InitSolver ==
  /\ meshingAvailable \in BOOLEAN
  /\ missing_meshing_dependencies = MissingMeshingDependencies(meshingAvailable)
  /\ nodalVariables = {}
  /\ remeshing_process = 0 /\ metric_process = 0 /\ nextObject = 1
  /\ remeshCreates = 0 /\ metricCreates = 0 /\ firstRemesh = 0 /\ firstMetric = 0
  /\ returned = 0 /\ calls = 0

IdleSolver ==
  /\ meshingAvailable = FALSE
  /\ missing_meshing_dependencies = MissingMeshingDependencies(FALSE)
  /\ nodalVariables = {}
  /\ remeshing_process = 0 /\ metric_process = 0 /\ nextObject = 1
  /\ remeshCreates = 0 /\ metricCreates = 0 /\ firstRemesh = 0 /\ firstMetric = 0
  /\ returned = 0 /\ calls = 0

CallAddVariables ==
  /\ script = "solver"
  /\ \E fail \in {"none", "super", "AddNodalSolutionStepVariable"} :
       /\ lastOp' = "AddVariables"
       /\ IF fail = "super"
          THEN /\ nodalVariables' = nodalVariables
               /\ raisedAt' = {"super"} /\ outcome' = "raised"
          ELSE IF fail = "AddNodalSolutionStepVariable" /\ ~missing_meshing_dependencies
          THEN /\ nodalVariables' = nodalVariables \cup BaseVariables
               /\ raisedAt' = {"AddNodalSolutionStepVariable"} /\ outcome' = "raised"
          ELSE /\ nodalVariables' = AddVariables(nodalVariables, missing_meshing_dependencies)
               /\ raisedAt' = {} /\ outcome' = "returned"
  /\ UNCHANGED <<script, meshingAvailable, missing_meshing_dependencies, remeshing_process,
                 metric_process, nextObject, remeshCreates, metricCreates, firstRemesh,
                 firstMetric, returned, calls>>
  /\ UNCHANGED <<couplingVars, mapperVars, analysisVars>>

get_remeshing_process ==
  /\ script = "solver" /\ calls < MaxCalls
  /\ calls' = calls + 1
  /\ lastOp' = "get_remeshing_process"
  /\ \E createRaises \in BOOLEAN :
       IF MustCreate(remeshing_process)
       THEN /\ remeshCreates' = remeshCreates + 1
            /\ IF createRaises
               THEN /\ raisedAt' = {"CreateRemeshingProcess"} /\ outcome' = "raised"
                    /\ returned' = 0
                    /\ UNCHANGED <<remeshing_process, nextObject, firstRemesh>>
               ELSE /\ raisedAt' = {} /\ outcome' = "returned"
                    /\ remeshing_process' = nextObject
                    /\ nextObject' = nextObject + 1
                    /\ returned' = nextObject
                    /\ firstRemesh' = IF firstRemesh = 0 THEN nextObject ELSE firstRemesh
       ELSE /\ raisedAt' = {} /\ outcome' = "returned"
            /\ returned' = remeshing_process
            /\ firstRemesh' = IF firstRemesh = 0 THEN remeshing_process ELSE firstRemesh
            /\ UNCHANGED <<remeshing_process, nextObject, remeshCreates>>
  /\ UNCHANGED <<script, meshingAvailable, missing_meshing_dependencies, nodalVariables,
                 metric_process, metricCreates, firstMetric>>
  /\ UNCHANGED <<couplingVars, mapperVars, analysisVars>>

get_metric_process ==
  /\ script = "solver" /\ calls < MaxCalls
  /\ calls' = calls + 1
  /\ lastOp' = "get_metric_process"
  /\ \E createRaises \in BOOLEAN :
       IF MustCreate(metric_process)
       THEN /\ metricCreates' = metricCreates + 1
            /\ IF createRaises
               THEN /\ raisedAt' = {"CreateMetricProcess"} /\ outcome' = "raised"
                    /\ returned' = 0
                    /\ UNCHANGED <<metric_process, nextObject, firstMetric>>
               ELSE /\ raisedAt' = {} /\ outcome' = "returned"
                    /\ metric_process' = nextObject
                    /\ nextObject' = nextObject + 1
                    /\ returned' = nextObject
                    /\ firstMetric' = IF firstMetric = 0 THEN nextObject ELSE firstMetric
       ELSE /\ raisedAt' = {} /\ outcome' = "returned"
            /\ returned' = metric_process
            /\ firstMetric' = IF firstMetric = 0 THEN metric_process ELSE firstMetric
            /\ UNCHANGED <<metric_process, nextObject, metricCreates>>
  /\ UNCHANGED <<script, meshingAvailable, missing_meshing_dependencies, nodalVariables,
                 remeshing_process, remeshCreates, firstRemesh>>
  /\ UNCHANGED <<couplingVars, mapperVars, analysisVars>>

\* ================================================ fluid_fraction_test_analysis
Keys == {"fluid_domain_volume", "time_stepping"}
ParameterSets == UNION {[K -> 1..2] : K \in SUBSET Keys}

\* Parameters("{}")
EmptyParameters == << >>

\* Python values handed to the constructor
PyModel == [kind |-> "Model", int |-> 0, params |-> EmptyParameters]
PyInt(i) == [kind |-> "int", int |-> i, params |-> EmptyParameters]
PyParameters(p) == [kind |-> "Parameters", int |-> 0, params |-> p]
NoArgument == [kind |-> "none", int |-> 0, params |-> EmptyParameters]

\* def __init__(self, model, iteration, varying_parameters = Parameters("{}")):
\* the binding of the positional arguments after self
BindInit(args) ==
  [model |-> args[1],
   iteration |-> args[2],
   varying_parameters |-> IF Len(args) >= 3 THEN args[3] ELSE PyParameters(EmptyParameters)]

\* FluidFractionTestAnalysis.__init__, lines 25-28
FluidFractionTestAnalysisInit(args) ==
  LET b == BindInit(args) IN
    [toolArgument |-> b.iteration,
     baseParameters |-> b.varying_parameters.params,
     project_parameters |-> b.varying_parameters.params]

\* the arguments of the constructor call of the __main__ block, line 77
MainArguments(parameters) == << PyModel, PyParameters(parameters) >>

\* self.project_parameters["fluid_domain_volume"].GetDouble(), 0 when the key is absent
FluidDomainVolume(p) ==
  IF "fluid_domain_volume" \in DOMAIN p THEN p["fluid_domain_volume"] ELSE 0

InitAnalysis ==
  /\ fileParameters \in ParameterSets
  /\ project_parameters = EmptyParameters /\ baseParameters = EmptyParameters
  /\ toolArgument = NoArgument /\ constructedBy = "none" /\ lookup = 0

IdleAnalysis ==
  /\ fileParameters = EmptyParameters
  /\ project_parameters = EmptyParameters /\ baseParameters = EmptyParameters
  /\ toolArgument = NoArgument /\ constructedBy = "none" /\ lookup = 0

Construct(args, by) ==
  /\ \E fail \in {"none", "ErrorProjectionPostProcessTool", "SwimmingDEMAnalysis"} :
       LET r == FluidFractionTestAnalysisInit(args) IN
         /\ lastOp' = "__init__"
         /\ raisedAt' = IF fail = "none" THEN {} ELSE {fail}
         /\ outcome' = IF fail = "none" THEN "returned" ELSE "raised"
         /\ toolArgument' = r.toolArgument
         /\ baseParameters' = IF fail = "ErrorProjectionPostProcessTool"
                              THEN EmptyParameters ELSE r.baseParameters
         /\ project_parameters' = IF fail = "none" THEN r.project_parameters
                                  ELSE EmptyParameters
         /\ constructedBy' = IF fail = "none" THEN by ELSE "none"
         /\ lookup' = 0
  /\ UNCHANGED <<script, fileParameters>>
  /\ UNCHANGED <<couplingVars, mapperVars, solverVars>>

\* the __main__ block, lines 65-77
RunAsScript ==
  /\ script = "analysis" /\ constructedBy = "none"
  /\ Construct(MainArguments(fileParameters), "main")

\* a caller that passes model, iteration and the project parameters
ConstructFromCaller ==
  /\ script = "analysis" /\ constructedBy = "none"
  /\ \E i \in 1..MaxIteration, p \in ParameterSets :
       Construct(<< PyModel, PyInt(i), PyParameters(p) >>, "caller")

\* FinalizeSolutionStep, lines 46-56: the lookup made when debug_info_counter.Tick()
FinalizeSolutionStep ==
  /\ script = "analysis" /\ constructedBy # "none"
  /\ lastOp' = "FinalizeSolutionStep"
  /\ \E tick \in BOOLEAN :
       IF tick /\ "fluid_domain_volume" \notin DOMAIN project_parameters
       THEN /\ raisedAt' = {"Parameters[]"} /\ outcome' = "raised" /\ lookup' = 0
       ELSE /\ raisedAt' = {} /\ outcome' = "returned"
            /\ lookup' = IF tick THEN FluidDomainVolume(project_parameters) ELSE lookup
  /\ UNCHANGED <<script, fileParameters, project_parameters, baseParameters, toolArgument,
                 constructedBy>>
  /\ UNCHANGED <<couplingVars, mapperVars, solverVars>>

\* ====================================================================== system
Init ==
  /\ script \in Scripts
  /\ lastOp = "none" /\ outcome = "none" /\ raisedAt = {}
  /\ IF script = "coupling" THEN InitCoupling ELSE IdleCoupling
  /\ IF script = "mapper" THEN InitMapper ELSE IdleMapper
  /\ IF script = "solver" THEN InitSolver ELSE IdleSolver
  /\ IF script = "analysis" THEN InitAnalysis ELSE IdleAnalysis

Next ==
  \/ CallGetPythonList
  \/ CallApplyUpdateToData
  \/ ImportModule
  \/ SetUpEnter
  \/ SetUpBody
  \/ TestExecutionEnter
  \/ TestCall
  \/ TestExecutionExit
  \/ CallAddVariables
  \/ get_remeshing_process
  \/ get_metric_process
  \/ RunAsScript
  \/ ConstructFromCaller
  \/ FinalizeSolutionStep

Spec == Init /\ [][Next]_vars

\* ====================================================================== claims
Mesh == MeshNodes(geometry_name)
CaughtFailures == {"KratosMultiphysics.mpi", "mpi.size"}

\* C1 (as stated): no operation completes normally after the engine raised inside it.
C1_EveryFailureReachesCaller ==
  raisedAt # {} => outcome # "returned"

\* C1 (amended): every engine failure reaches the caller except the two the test
\* module handles: a failing import of KratosMultiphysics.mpi is suppressed and the
\* module loads without mpi, and a failing mpi.size in setUp is replaced by
\* num_processors = 1; every other failure ends its operation by raising.
C1_FailuresReachCallerExceptMpiFallback ==
  /\ (raisedAt \ CaughtFailures) # {} => outcome = "raised"
  /\ (raisedAt \cap CaughtFailures) # {} => lastOp \in {"import", "setUp"}
  /\ (lastOp = "import" /\ raisedAt = {"KratosMultiphysics.mpi"})
       => (outcome = "returned" /\ ~mpiDefined)
  /\ "mpi.size" \in raisedAt => num_processors = 1
  /\ (lastOp = "setUp" /\ raisedAt = {"mpi.size"}) => outcome # "raised"

C1_Witness ==
  /\ lastOp = "ApplyUpdateToData"
  /\ raisedAt = {"SetSolutionStepValue"}
  /\ outcome = "raised"

\* C2: for dimension d >= 1 GetPythonList(k) returns N*d entries, entry n*d + i being
\* component i of the value at step k of the n-th node of the mesh.
C2_GetPythonListLayout ==
  (lastOp = "GetPythonList" /\ outcome = "returned" /\ dimension >= 1) =>
    /\ Len(data) = Len(Mesh) * dimension
    /\ \A n \in 0..(Len(Mesh) - 1) : \A i \in 0..(dimension - 1) :
         data[n * dimension + i + 1] = values[name][Mesh[n + 1]][stepArg][i + 1]

C2_Witness ==
  /\ lastOp = "GetPythonList" /\ outcome = "returned"
  /\ dimension = 2 /\ Len(Mesh) >= 2 /\ stepArg = 1
  /\ data[1] # data[dimension + 1]

\* C3: after ApplyUpdateToData(u) with u of length N*d, d in 1..3, GetPythonList(0)
\* returns u.
C3_RoundTrip ==
  (/\ lastOp = "GetPythonList" /\ outcome = "returned" /\ stepArg = 0
   /\ passed # NoList
   /\ dimension \in 1..3
   /\ Len(passed) = Len(Mesh) * dimension)
  => data = passed

C3_Witness ==
  /\ lastOp = "GetPythonList" /\ outcome = "returned" /\ stepArg = 0
  /\ passed # NoList /\ dimension = 2 /\ Len(Mesh) >= 2
  /\ Len(passed) = Len(Mesh) * dimension
  /\ passed[dimension + 2] # 0 /\ passed[2] = 0
  /\ data = passed

\* the calls the claim lists for a processor count
C4_Expected(p) ==
  IF p = 1
  THEN << <<"TestMapConstantScalarValues", 1>>, <<"TestInverseMapConstantScalarValues", 2>>,
          <<"TestMapConstantVectorValues", 3>>, <<"TestInverseMapConstantVectorValues", 4>>,
          <<"TestMapNonConstantScalarValues", 5>>,
          <<"TestInverseMapNonConstantScalarValues", 6>> >>
  ELSE << <<"TestMapConstantScalarValues", 1>>, <<"TestInverseMapConstantScalarValues", 2>>,
          <<"TestMapConstantVectorValues", 3>>, <<"TestInverseMapConstantVectorValues", 4>> >>
       \o (IF p \in {2, 4, 8} THEN << <<"TestMapNonConstantScalarValues", 5>> >> ELSE << >>)
       \o (IF p \in {3, 5, 9} THEN << <<"TestInverseMapNonConstantScalarValues", 6>> >>
           ELSE << >>)

IsPrefix(s, t) == Len(s) <= Len(t) /\ SubSeq(t, 1, Len(s)) = s

\* C4: test_execution makes the calls listed for the processor count fixed in setUp,
\* in that order: all of them when it returns, the first ones when a call raises; a
\* parallel run never makes both non-constant calls.
C4_Dispatch ==
  lastOp = "test_execution" =>
    /\ num_processors \in 1..MaxProcs
    /\ num_processors \in {1, mpiSize}
    /\ ~mpiDefined => num_processors = 1
    /\ IsPrefix(log, C4_Expected(num_processors))
    /\ outcome = "returned" => log = C4_Expected(num_processors)
    /\ num_processors > 1 =>
         ~(\E a, b \in 1..Len(log) : log[a][2] = 5 /\ log[b][2] = 6)
    /\ \A a, b \in 1..Len(log) : (log[a][2] >= 5 /\ log[b][2] <= 4) => b < a

C4_Witness ==
  /\ lastOp = "test_execution" /\ outcome = "returned"
  /\ num_processors = 5
  /\ Len(log) = 5 /\ log[5] = <<"TestInverseMapNonConstantScalarValues", 6>>

\* C5: run as a script, the analysis holds the parameters of ProjectParameters.json as
\* project_parameters, hands them to the base constructor, hands the post-process tool
\* an iteration number, and looks fluid_domain_volume up in the parameters of the file.
C5_MainPassesProjectParameters ==
  constructedBy = "main" =>
    /\ project_parameters = fileParameters
    /\ baseParameters = fileParameters
    /\ toolArgument.kind = "int"
    /\ (lastOp = "FinalizeSolutionStep" /\ outcome = "returned")
         => lookup \in {0, FluidDomainVolume(fileParameters)}

\* C6: AddVariables adds NODAL_H exactly when the MeshingApplication is available.
C6_NodalHIffMeshingAvailable ==
  (lastOp = "AddVariables" /\ outcome = "returned") =>
    (("NODAL_H" \in nodalVariables) <=> meshingAvailable)

\* C7: ApplyUpdateToData changes nothing but the step 0 value of the variable `name` on
\* the nodes of the mesh, and leaves the passed list as it was.
C7_Frame ==
  /\ \A v \in VariableNames : \A n \in Nodes : \A s \in Steps :
       (v # name \/ s >= 1 \/ ~(\E j \in 1..Len(Mesh) : Mesh[j] = n))
         => values[v][n][s] = InitialField[v][n][s]
  /\ update = passed

C7_Witness ==
  /\ lastOp = "ApplyUpdateToData" /\ outcome = "returned"
  /\ passed # NoList /\ update = passed
  /\ \A j \in 1..Len(Mesh) : values[name][Mesh[j]][0] # InitialField[name][Mesh[j]][0]

C8_Identity ==
  /\ (lastOp = "get_remeshing_process" /\ outcome = "returned")
       => (returned # 0 /\ returned = firstRemesh /\ returned = remeshing_process)
  /\ (lastOp = "get_metric_process" /\ outcome = "returned")
       => (returned # 0 /\ returned = firstMetric /\ returned = metric_process)

C8_Independent ==
  /\ lastOp' = "get_remeshing_process" => UNCHANGED <<metric_process, metricCreates>>
  /\ lastOp' = "get_metric_process" => UNCHANGED <<remeshing_process, remeshCreates>>

\* C8 (as stated): each _create_*_process is invoked at most once, every call returns
\* the object of the first call, and a getter leaves the other getter's process alone.
C8_CreatedAtMostOnce ==
  /\ [](remeshCreates <= 1 /\ metricCreates <= 1 /\ C8_Identity)
  /\ [][C8_Independent]_vars

\* C8 (amended): once a getter has returned, its _create_*_process is never invoked
\* again and every later call returns that same object; an invocation that raises
\* leaves the attribute unset; a getter leaves the other getter's process alone.
C8_CreatedOnceReturned ==
  /\ [](/\ C8_Identity
        /\ (remeshing_process = 0) = (firstRemesh = 0)
        /\ (metric_process = 0) = (firstMetric = 0)
        /\ outcome = "raised" /\ lastOp = "get_remeshing_process" => remeshing_process = 0
        /\ outcome = "raised" /\ lastOp = "get_metric_process" => metric_process = 0)
  /\ [][/\ remeshing_process # 0 => UNCHANGED <<remeshing_process, remeshCreates>>
        /\ metric_process # 0 => UNCHANGED <<metric_process, metricCreates>>
        /\ C8_Independent]_vars

C8_Witness ==
  /\ lastOp = "get_remeshing_process" /\ outcome = "returned"
  /\ remeshCreates = 1 /\ metricCreates = 1
  /\ metric_process # 0 /\ calls = 3
  /\ returned = firstRemesh

\* C9: inside a with block the working directory is the scope; once setUp or
\* test_execution has ended, by returning or by raising, it is the directory that was
\* current when the scope was constructed.
C9_ScopeRestoresDirectory ==
  /\ pc \in {"setUp_body", "test_body"} => cwd = ScopeDir
  /\ (lastOp \in {"setUp", "test_execution"} /\ outcome \in {"returned", "raised"})
       => (cwd = startCwd /\ cwd = currentPath)

C9_Witness ==
  /\ lastOp = "test_execution" /\ outcome = "raised"
  /\ startCwd # ScopeDir /\ cwd = startCwd

\* C10: ApplyUpdateToData leaves 0 in the components with index >= dimension of the
\* step 0 value of every node of the mesh; for dimension <= 0 it reads no entry of
\* update and every node gets (0,0,0), and GetPythonList returns the empty list.
C10_TrailingComponentsZero ==
  /\ (lastOp = "ApplyUpdateToData" /\ outcome = "returned") =>
       /\ \A j \in 1..Len(Mesh) : \A c \in 1..VecSize :
            c > dimension => values[name][Mesh[j]][0][c] = 0
       /\ dimension <= 0 => reads = 0
  /\ (lastOp = "GetPythonList" /\ outcome = "returned" /\ dimension <= 0) => data = << >>

C10_Witness ==
  /\ lastOp = "ApplyUpdateToData" /\ outcome = "returned"
  /\ dimension = 1 /\ reads = Len(Mesh)
  /\ \E j \in 1..Len(Mesh) :
       /\ InitialField[name][Mesh[j]][0][VecSize] # 0
       /\ values[name][Mesh[j]][0] = <<MaxVal, 0, 0>>

====
